---- MODULE Spec2Model ----
(***************************************************************************)
(* Model of the FractionalRealEstate contract (src/unnamed/part_000): the  *)
(* box map of property records, the asset and currency balances the        *)
(* contract's inner transactions move, and its four ABI methods.  Every    *)
(* method call is one atomic step: the AVM commits a call and the group    *)
(* it belongs to as a whole, or discards all of it.                        *)
(***************************************************************************)
EXTENDS Integers, Sequences, FiniteSets, TLC

----------------------------------------------------------------------------
(* Bounds of the model *)

\* how many assets the ledger mints before createPropertyListing stops
MaxAssets == 2
\* largest share count a caller lists (purchases ask for up to one more)
MaxShares == 2
\* largest price per share a caller lists
MaxPrice == 2
\* byte length of the property address callers use
AddressLen == 3
\* byte length of the longest property address callers use
MaxAddressLen == 34
\* how many contract calls the delist hook sends
MaxInvocations == 3
\* microAlgos each user account starts with
InitialFunds == 100000
\* largest value of the unsigned word (2^64 - 1 on the AVM, scaled down)
MaxUint == 65535

----------------------------------------------------------------------------
(* Accounts and inputs *)

App == "app"
ZeroAddress == "zero"
Users == {"alice", "bob"}
Accounts == Users \cup {App}

Bytes(n) == [i \in 1..n |-> 64 + i]
Addresses == {Bytes(AddressLen)}

Prices == 0..MaxPrice
PropertyIds == 1..MaxAssets

Min(a, b) == IF a < b THEN a ELSE b

PaymentTxn(amount, receiver, sender, closeRemainderTo, rekeyTo) ==
    [amount |-> amount, receiver |-> receiver, sender |-> sender,
     closeRemainderTo |-> closeRemainderTo, rekeyTo |-> rekeyTo]

NoPayment == PaymentTxn(0, ZeroAddress, ZeroAddress, ZeroAddress, ZeroAddress)

NoError == "none"

\* null and undefined of the front end; no property id is 0, which stands for a
\* null delistingPropertyId
Null == "null"
NoProperty == 0

----------------------------------------------------------------------------
VARIABLES
    listedProperties,   \* BoxMap propertyId -> PropertyStruct (its domain: the boxes that exist)
    assets,             \* ledger: asset id -> parameters of the minted asset
    assetCounter,       \* ledger: the last asset id handed out
    assetBalance,       \* ledger: asset id -> account -> units held
    algoBalance,        \* ledger: account -> microAlgos
    purchased,          \* history: propertyId -> shares sold by successful purchases
    returned,           \* history: ids returned by successful createPropertyListing
    delisted,           \* history: ids of successful delistProperty
    forwarded,          \* history: account -> microAlgos the app's inner payments sent it
    last,               \* the last call: a committed call with its arguments and
                        \* return value, or a failed call with its error (and, where
                        \* the outcome hangs on them alone, its caller and propertyId)
    hook,               \* useDelistProperty: delistingPropertyId, loading, error, success
    pending,            \* useDelistProperty: the invocations awaiting their contract call
    sent                \* history: contract calls sent by useDelistProperty

ledger == <<assets, assetCounter, assetBalance, algoBalance>>
history == <<purchased, returned, delisted, forwarded>>
hookVars == <<hook, pending, sent>>
vars == <<listedProperties, assets, assetCounter, assetBalance, algoBalance,
          purchased, returned, delisted, forwarded, last, hook, pending, sent>>

Call(op, caller, propertyId, propertyAddress, shares, pricePerShare, payment, ret) ==
    [op |-> op, result |-> "ok", error |-> NoError, caller |-> caller,
     propertyId |-> propertyId, propertyAddress |-> propertyAddress, shares |-> shares,
     pricePerShare |-> pricePerShare, payment |-> payment, ret |-> ret]

Failed(op, error, caller, propertyId) ==
    [op |-> op, result |-> "fail", error |-> error, caller |-> caller,
     propertyId |-> propertyId, propertyAddress |-> <<>>, shares |-> 0,
     pricePerShare |-> 0, payment |-> NoPayment, ret |-> 0]

Init ==
    /\ listedProperties = <<>>
    /\ assets = <<>>
    /\ assetCounter = 0
    /\ assetBalance = <<>>
    /\ algoBalance = [a \in Accounts |-> IF a = App THEN 0 ELSE InitialFunds]
    /\ purchased = [p \in PropertyIds |-> 0]
    /\ returned = {}
    /\ delisted = {}
    /\ forwarded = [a \in Accounts |-> 0]
    /\ last = Call("none", ZeroAddress, 0, <<>>, 0, 0, NoPayment, 0)
    /\ hook = [delistingPropertyId |-> NoProperty, loading |-> FALSE,
               error |-> Null, success |-> Null]
    /\ pending = {}
    /\ sent = 0

----------------------------------------------------------------------------
(* Ledger primitives the contract relies on *)

\* a payment the ledger can execute: the sender holds the amount
CanPay(bal, payment) ==
    /\ payment.sender \in DOMAIN bal
    /\ bal[payment.sender] >= payment.amount

\* balances after moving amount from sender to receiver
Pay(bal, sender, receiver, amount) ==
    [a \in DOMAIN bal |->
        bal[a] - (IF a = sender THEN amount ELSE 0)
               + (IF a = receiver THEN amount ELSE 0)]

----------------------------------------------------------------------------
(* createPropertyListing *)

\* a slip: the cost worked out once, for an address of the usual length
boxMbrCost_HardCoded(propertyAddress) == 2500 + 400 * (18 + 68 + AddressLen)

boxMbrCost(propertyAddress) == 2500 + 400 * (18 + 68 + Len(propertyAddress))

sharesPositive(shares) == shares > 0

\* a slip: a price of zero let through
pricePositive_AllowZero(pricePerShare) == pricePerShare >= 0

pricePositive(pricePerShare) == pricePerShare > 0

mbrCovered(mbrPayment, propertyAddress) == mbrPayment.amount >= boxMbrCost(propertyAddress)

\* the asserts of createPropertyListing in order: the message of the first that fails
listingError(caller, mbrPayment, propertyAddress, shares, pricePerShare) ==
    IF ~sharesPositive(shares) THEN "Shares must be greater than 0"
    ELSE IF ~pricePositive(pricePerShare) THEN "Price per share must be greater than 0"
    ELSE IF ~mbrCovered(mbrPayment, propertyAddress) THEN "MBR payment amount is insufficient"
    ELSE IF ~(mbrPayment.receiver = App) THEN "MBR payment must be to the app"
    ELSE IF ~(mbrPayment.sender = caller) THEN "MBR payment must be from the caller"
    ELSE NoError

\* how the whole call ends: with the ledger's error when the payment ahead of the
\* call in the group cannot be made, else with the method's own, else with none
listingResult(caller, mbrPayment, propertyAddress, shares, pricePerShare) ==
    IF ~CanPay(algoBalance, mbrPayment) THEN "ledger: overspend"
    ELSE listingError(caller, mbrPayment, propertyAddress, shares, pricePerShare)

\* a slip: the whole address given as the asset name
createPropertyAsset_WholeAddress(propertyAddress, shares) ==
    [assetName |-> propertyAddress,
     unitName |-> "PROP",
     total |-> shares,
     decimals |-> 0,
     manager |-> App,
     reserve |-> App]

\* parameters of the itxn.assetConfig that mints the property's asset
createPropertyAsset(propertyAddress, shares) ==
    [assetName |-> SubSeq(propertyAddress, 1, Min(32, Len(propertyAddress))),
     unitName |-> "PROP",
     total |-> shares,
     decimals |-> 0,
     manager |-> App,
     reserve |-> App]

\* a slip: availableShares initialised from the neighbouring argument
PropertyStruct_AvailableFromPrice(caller, propertyAddress, shares, pricePerShare, assetId) ==
    [address |-> propertyAddress,
     totalShares |-> shares,
     availableShares |-> pricePerShare,
     pricePerShare |-> pricePerShare,
     propertyAssetId |-> assetId,
     ownerAddress |-> caller]

\* a slip: the app's own address recorded as the owner
PropertyStruct_OwnedByApp(caller, propertyAddress, shares, pricePerShare, assetId) ==
    [address |-> propertyAddress,
     totalShares |-> shares,
     availableShares |-> shares,
     pricePerShare |-> pricePerShare,
     propertyAssetId |-> assetId,
     ownerAddress |-> App]

PropertyStruct(caller, propertyAddress, shares, pricePerShare, assetId) ==
    [address |-> propertyAddress,
     totalShares |-> shares,
     availableShares |-> shares,
     pricePerShare |-> pricePerShare,
     propertyAssetId |-> assetId,
     ownerAddress |-> caller]

\* a slip: the record stored under a key counted from zero
listingKey_FromZero(assetId) == assetId - 1

\* the key of the box the new record is written to
listingKey(assetId) == assetId

\* this.listedProperties(key).value = struct
writeBox(boxes, key, struct) ==
    [k \in DOMAIN boxes \cup {key} |-> IF k = key THEN struct ELSE boxes[k]]

createPropertyListing(caller, mbrPayment, propertyAddress, shares, pricePerShare) ==
    LET error == listingResult(caller, mbrPayment, propertyAddress, shares, pricePerShare)
        assetId == assetCounter + 1
    IN
    /\ assetCounter < MaxAssets
    /\ IF error = NoError
       THEN /\ algoBalance' = Pay(algoBalance, mbrPayment.sender, mbrPayment.receiver,
                                  mbrPayment.amount)
            /\ assetCounter' = assetId
            /\ assets' = writeBox(assets, assetId, createPropertyAsset(propertyAddress, shares))
            /\ assetBalance' = writeBox(assetBalance, assetId,
                                  [a \in Accounts |-> IF a = App THEN shares ELSE 0])
            /\ listedProperties' = writeBox(listedProperties, listingKey(assetId),
                                  PropertyStruct(caller, propertyAddress, shares,
                                                 pricePerShare, assetId))
            /\ returned' = returned \cup {assetId}
            /\ UNCHANGED <<purchased, delisted, forwarded>>
            /\ last' = Call("createPropertyListing", caller, 0, propertyAddress, shares,
                            pricePerShare, mbrPayment, assetId)
       ELSE /\ UNCHANGED <<listedProperties, ledger, history>>
            /\ last' = Failed("createPropertyListing", error, ZeroAddress, 0)

----------------------------------------------------------------------------
(* purchaseFromLister *)

\* uint64 multiplication: the AVM stops the call when the product leaves the word
\* a slip: the product taken as it comes out of the word, no overflow raised
mulOverflows_Unchecked(a, b) == FALSE

mulOverflows(a, b) == a * b > MaxUint

\* the product as the word holds it
mul(a, b) == (a * b) % (MaxUint + 1)

\* a slip: a purchase of no shares let through
purchaseSharesPositive_AllowZero(shares) == shares >= 0

purchaseSharesPositive(shares) == shares > 0

\* a slip: an amount that covers the price is taken for a match
amountMatches_AtLeast(payment, shares, property) ==
    payment.amount >= mul(shares, property.pricePerShare)

amountMatches(payment, shares, property) ==
    payment.amount = mul(shares, property.pricePerShare)

\* a slip: the rekeyTo condition left out of the match
paymentFieldsMatch_RekeyIgnored(caller, payment) ==
    /\ payment.receiver = App
    /\ payment.sender = caller
    /\ payment.closeRemainderTo = ZeroAddress

paymentFieldsMatch(caller, payment) ==
    /\ payment.receiver = App
    /\ payment.sender = caller
    /\ payment.closeRemainderTo = ZeroAddress
    /\ payment.rekeyTo = ZeroAddress

\* a slip: the request compared with the supply as it was at listing time
enoughShares_OfTotal(property, shares) == shares <= property.totalShares

enoughShares(property, shares) == shares <= property.availableShares

\* the asserts of purchaseFromLister in order: the message of the first that fails
purchaseError(caller, propertyId, shares, payment) ==
    IF ~purchaseSharesPositive(shares) THEN "Must purchase at least one share"
    ELSE IF ~(propertyId \in DOMAIN listedProperties) THEN "Property not listed"
    ELSE LET property == listedProperties[propertyId] IN
         IF mulOverflows(shares, property.pricePerShare) THEN "* overflowed"
         ELSE IF ~(amountMatches(payment, shares, property)
                     /\ paymentFieldsMatch(caller, payment))
              THEN "assert target is match for conditions"
         ELSE IF ~enoughShares(property, shares) THEN "Not enough shares"
         ELSE NoError

\* a slip: the remainder taken from the minted supply, not from what is left
remainingShares_FromTotal(property, shares) == property.totalShares - shares

\* the second argument of the call to updateAvailableShares
remainingShares(property, shares) == property.availableShares - shares

\* a slip: the updated copy of the box value is never written back
updateAvailableShares_NotPersisted(boxes, propertyId, newAvailableShares) == boxes

\* a slip: the new value spread over totalShares as well
updateAvailableShares_AlsoTotal(boxes, propertyId, newAvailableShares) ==
    writeBox(boxes, propertyId,
             [boxes[propertyId] EXCEPT !.availableShares = newAvailableShares,
                                       !.totalShares = newAvailableShares])

updateAvailableShares(boxes, propertyId, newAvailableShares) ==
    writeBox(boxes, propertyId,
             [boxes[propertyId] EXCEPT !.availableShares = newAvailableShares])

\* a slip: the inner asset transfer sends one unit whatever was bought
itxnAssetTransfer_OneUnit(caller, property, shares) ==
    [xferAsset |-> property.propertyAssetId,
     assetReceiver |-> caller,
     assetAmount |-> 1]

\* the first inner transaction of the group: the shares, to the caller
itxnAssetTransfer(caller, property, shares) ==
    [xferAsset |-> property.propertyAssetId,
     assetReceiver |-> caller,
     assetAmount |-> shares]

\* a slip: the inner payment sent back to the caller
itxnPayment_ToCaller(caller, property, payment) ==
    [amount |-> payment.amount,
     receiver |-> caller]

\* the second inner transaction of the group: the payment's amount, to the owner
itxnPayment(caller, property, payment) ==
    [amount |-> payment.amount,
     receiver |-> property.ownerAddress]

\* the ledger's conditions on the grouped inner asset transfer and payment, given
\* whether the caller has opted in
purchaseGroupError(caller, property, shares, payment, optedIn) ==
    IF ~(property.propertyAssetId \in DOMAIN assets) THEN "ledger: asset does not exist"
    ELSE IF ~optedIn THEN "ledger: receiver has not opted in"
    ELSE IF ~(assetBalance[property.propertyAssetId][App] >= shares)
         THEN "ledger: underflow on asset"
    ELSE NoError

\* how the whole call ends: with the ledger's error when the payment ahead of the
\* call in the group cannot be made, else with the method's own, else with the
\* inner group's, else with the failed subtraction's, else with none
purchaseResult(caller, propertyId, shares, payment, optedIn) ==
    LET error == purchaseError(caller, propertyId, shares, payment) IN
    IF ~CanPay(algoBalance, payment) THEN "ledger: overspend"
    ELSE IF error # NoError THEN error
    ELSE LET property == listedProperties[propertyId]
             groupError == purchaseGroupError(caller, property, shares, payment, optedIn)
         IN  IF groupError # NoError THEN groupError
             ELSE IF remainingShares(property, shares) < 0 THEN "- would result negative"
             ELSE NoError

purchaseFromLister(caller, propertyId, shares, payment) ==
    \E optedIn \in IF purchaseError(caller, propertyId, shares, payment) = NoError
                   THEN BOOLEAN ELSE {FALSE} :
    LET error == purchaseResult(caller, propertyId, shares, payment, optedIn) IN
    IF error # NoError
    THEN /\ UNCHANGED <<listedProperties, ledger, history>>
         /\ last' = Failed("purchaseFromLister", error, ZeroAddress, 0)
    ELSE LET property == listedProperties[propertyId]
             transfer == itxnAssetTransfer(caller, property, shares)
             forward == itxnPayment(caller, property, payment)
         IN  /\ assetBalance' = [assetBalance EXCEPT ![transfer.xferAsset] =
                                    Pay(@, App, transfer.assetReceiver, transfer.assetAmount)]
             /\ algoBalance' = Pay(Pay(algoBalance, payment.sender, payment.receiver,
                                       payment.amount),
                                   App, forward.receiver, forward.amount)
             /\ forwarded' = [forwarded EXCEPT ![forward.receiver] = @ + forward.amount]
             /\ listedProperties' = updateAvailableShares(listedProperties, propertyId,
                                        remainingShares(property, shares))
             /\ purchased' = [purchased EXCEPT ![propertyId] = @ + shares]
             /\ UNCHANGED <<assets, assetCounter, returned, delisted>>
             /\ last' = Call("purchaseFromLister", caller, propertyId, <<>>, shares, 0,
                             payment, 1)

----------------------------------------------------------------------------
(* delistProperty *)

\* a slip: the owner check left out
callerIsOwner_Anyone(caller, property) == TRUE

callerIsOwner(caller, property) == caller = property.ownerAddress

\* a slip: the check of sold shares left out
noSharesSold_Unchecked(property) == TRUE

noSharesSold(property) == property.availableShares = property.totalShares

\* the asserts of delistProperty in order: the message of the first that fails
delistError(caller, propertyId) ==
    IF ~(propertyId \in DOMAIN listedProperties) THEN "Property not listed"
    ELSE IF ~callerIsOwner(caller, listedProperties[propertyId])
         THEN "Only the owner can delist"
    ELSE IF ~noSharesSold(listedProperties[propertyId])
         THEN "Cannot delist property with sold shares"
    ELSE NoError

\* a slip: the box is left in place
deleteBox_KeepsBox(boxes, propertyId) == boxes

\* this.listedProperties(propertyId).delete()
deleteBox(boxes, propertyId) ==
    [k \in DOMAIN boxes \ {propertyId} |-> boxes[k]]

delistProperty(caller, propertyId) ==
    LET error == delistError(caller, propertyId) IN
    IF error = NoError
    THEN /\ listedProperties' = deleteBox(listedProperties, propertyId)
         /\ delisted' = delisted \cup {propertyId}
         /\ UNCHANGED <<ledger, purchased, returned, forwarded>>
         /\ last' = Call("delistProperty", caller, propertyId, <<>>, 0, 0, NoPayment, 0)
    ELSE /\ UNCHANGED <<listedProperties, ledger, history>>
         /\ last' = Failed("delistProperty", error, caller, propertyId)

----------------------------------------------------------------------------
(* getPropertyInfo *)

infoError(propertyId) ==
    IF ~(propertyId \in DOMAIN listedProperties) THEN "Property not listed" ELSE NoError

\* a slip: the record as it was listed, without the purchases since
propertyInfo_AsListed(boxes, propertyId) ==
    [boxes[propertyId] EXCEPT !.availableShares = boxes[propertyId].totalShares]

\* the value the method returns: the box of propertyId
propertyInfo(boxes, propertyId) == boxes[propertyId]

getPropertyInfo(propertyId) ==
    /\ UNCHANGED <<listedProperties, ledger, history>>
    /\ IF infoError(propertyId) = NoError
       THEN last' = Call("getPropertyInfo", ZeroAddress, propertyId, <<>>, 0, 0, NoPayment,
                         propertyInfo(listedProperties, propertyId))
       ELSE last' = Failed("getPropertyInfo", infoError(propertyId), ZeroAddress, propertyId)

----------------------------------------------------------------------------
(* The calls callers make *)

\* a payment with nothing wrong but, possibly, its amount
Plain(caller, amount) == PaymentTxn(amount, App, caller, ZeroAddress, ZeroAddress)

\* the payments sent elsewhere or sent by another account
Misdirected(caller, amount) ==
    {PaymentTxn(amount, caller, caller, ZeroAddress, ZeroAddress)}
      \cup {PaymentTxn(amount, App, other, ZeroAddress, ZeroAddress) :
                other \in Users \ {caller}}

\* the payments that close or rekey the sender's account
Divertible(caller, amount) ==
    {PaymentTxn(amount, App, caller, App, ZeroAddress),
     PaymentTxn(amount, App, caller, ZeroAddress, App)}

\* shares offered in a listing
ListingShares == 0..MaxShares

\* payments offered with a listing: one microAlgo short or exact, and the exact
\* ones sent elsewhere or by another account (the method reads no other field)
ListingPayments(caller, propertyAddress) ==
    {Plain(caller, boxMbrCost(propertyAddress) - 1),
     Plain(caller, boxMbrCost(propertyAddress))}
      \cup Misdirected(caller, boxMbrCost(propertyAddress))

\* shares asked for in a purchase
PurchaseShares == 0..(MaxShares + 1)

\* payments offered with a purchase: any amount up to one more than the price of
\* a whole listing, and the payments of the dearest single share with one field off
PurchasePayments(caller) ==
    {Plain(caller, amount) : amount \in 0..(MaxShares * MaxPrice + 1)}
      \cup Misdirected(caller, MaxPrice) \cup Divertible(caller, MaxPrice)

Next ==
    \/ \E caller \in Users, propertyAddress \in Addresses,
          shares \in ListingShares, pricePerShare \in Prices :
         \E mbrPayment \in ListingPayments(caller, propertyAddress) :
            /\ createPropertyListing(caller, mbrPayment, propertyAddress, shares,
                                     pricePerShare)
            /\ UNCHANGED hookVars
    \/ \E caller \in Users, propertyId \in PropertyIds, shares \in PurchaseShares :
         \E payment \in PurchasePayments(caller) :
            /\ purchaseFromLister(caller, propertyId, shares, payment)
            /\ UNCHANGED hookVars
    \/ \E caller \in Users, propertyId \in PropertyIds :
         /\ delistProperty(caller, propertyId)
         /\ UNCHANGED hookVars
    \/ \E propertyId \in PropertyIds :
         /\ getPropertyInfo(propertyId)
         /\ UNCHANGED hookVars

Spec == Init /\ [][Next]_vars

----------------------------------------------------------------------------
(* Listings with addresses of several lengths and payments around the cost *)

\* addresses offered in a listing: the usual one, one of exactly 32 bytes, and
\* two longer ones that agree on their first 32 bytes
ListingAddresses == {Bytes(n) : n \in {AddressLen, 32, MaxAddressLen - 1, MaxAddressLen}}

\* payments offered with a listing: one microAlgo short, exact, one microAlgo
\* over, and the exact one sent elsewhere or by another account
MbrPayments(caller, propertyAddress) ==
    {Plain(caller, boxMbrCost(propertyAddress) + surplus) : surplus \in {-1, 0, 1}}
      \cup Misdirected(caller, boxMbrCost(propertyAddress))

NextListing ==
    \/ \E caller \in Users, propertyAddress \in ListingAddresses,
          shares \in ListingShares, pricePerShare \in Prices :
         \E mbrPayment \in MbrPayments(caller, propertyAddress) :
            /\ createPropertyListing(caller, mbrPayment, propertyAddress, shares,
                                     pricePerShare)
            /\ UNCHANGED hookVars
    \/ \E caller \in Users, propertyId \in PropertyIds :
         /\ delistProperty(caller, propertyId)
         /\ UNCHANGED hookVars
    \/ \E propertyId \in PropertyIds :
         /\ getPropertyInfo(propertyId)
         /\ UNCHANGED hookVars

SpecListing == Init /\ [][NextListing]_vars

----------------------------------------------------------------------------
(* Listings priced so high that the price of two shares leaves the word *)

\* prices offered in a listing: half the word and the largest value of the word
HighPrices == {(MaxUint + 1) \div 2, MaxUint}

\* payments offered with a purchase: what the word holds of the price of one
\* or two shares, which is the price itself where it fits
WordPayments(caller) ==
    {Plain(caller, mul(shares, pricePerShare)) :
        shares \in 1..MaxShares, pricePerShare \in HighPrices}

NextOverflow ==
    \/ \E caller \in Users, propertyAddress \in Addresses, pricePerShare \in HighPrices :
         /\ createPropertyListing(caller, Plain(caller, boxMbrCost(propertyAddress)),
                                  propertyAddress, MaxShares, pricePerShare)
         /\ UNCHANGED hookVars
    \/ \E caller \in Users, propertyId \in PropertyIds, shares \in 1..MaxShares :
         \E payment \in WordPayments(caller) :
            /\ purchaseFromLister(caller, propertyId, shares, payment)
            /\ UNCHANGED hookVars
    \/ \E caller \in Users, propertyId \in PropertyIds :
         /\ delistProperty(caller, propertyId)
         /\ UNCHANGED hookVars
    \/ \E propertyId \in PropertyIds :
         /\ getPropertyInfo(propertyId)
         /\ UNCHANGED hookVars

SpecOverflow == Init /\ [][NextOverflow]_vars

----------------------------------------------------------------------------
(* The front end's useDelistProperty hook.  An invocation of its delistProperty *)
(* function runs in two uninterrupted stretches: from the call to the await of  *)
(* the contract call, and from the settling of that call to the end of the      *)
(* finally block.  Stretches of different invocations interleave freely.        *)

AppNotReady == "App is not ready. Please try again in a moment."
WalletNotConnected == "Please connect your wallet to delist."
PropertyDelisted == "Property delisted!"

\* the first stretch: the two guards, then the four setters; whether the
\* contract call is sent, and the state the hook is left in
hookInvoked(state, propertyId, appClient, activeAddress) ==
    IF appClient = Null
    THEN [send |-> FALSE, state |-> [state EXCEPT !.error = AppNotReady]]
    ELSE IF activeAddress = Null
    THEN [send |-> FALSE, state |-> [state EXCEPT !.error = WalletNotConnected]]
    ELSE [send |-> TRUE,
          state |-> [state EXCEPT !.delistingPropertyId = propertyId,
                                  !.loading = TRUE,
                                  !.error = Null,
                                  !.success = Null]]

\* the second stretch: the rest of try or the catch, then finally
hookSettled(state, callError) ==
    LET outcome == IF callError = NoError
                   THEN [state EXCEPT !.success = PropertyDelisted]
                   ELSE [state EXCEPT !.error = callError]
    IN  [outcome EXCEPT !.loading = FALSE, !.delistingPropertyId = NoProperty]

hookDelistProperty(propertyId, appClient, activeAddress) ==
    LET invoked == hookInvoked(hook, propertyId, appClient, activeAddress) IN
    /\ hook' = invoked.state
    /\ IF invoked.send
       THEN /\ sent < MaxInvocations
            /\ sent' = sent + 1
            /\ pending' = pending \cup {[invocation |-> sent + 1,
                                         propertyId |-> propertyId,
                                         sender |-> activeAddress]}
       ELSE UNCHANGED <<pending, sent>>
    /\ UNCHANGED <<listedProperties, ledger, history, last>>

\* the contract call of a pending invocation is executed and its promise settles
hookDelistSettled(invocation) ==
    /\ invocation \in pending
    /\ delistProperty(invocation.sender, invocation.propertyId)
    /\ hook' = hookSettled(hook, delistError(invocation.sender, invocation.propertyId))
    /\ pending' = pending \ {invocation}
    /\ UNCHANGED sent

\* what the hook is handed as appClient and activeAddress
AppClients == {Null, "appClient"}
ActiveAddresses == {Null} \cup Users

NextHook ==
    \/ \E caller \in Users, propertyAddress \in Addresses :
         /\ createPropertyListing(caller, Plain(caller, boxMbrCost(propertyAddress)),
                                  propertyAddress, MaxShares, MaxPrice)
         /\ UNCHANGED hookVars
    \/ \E propertyId \in PropertyIds, appClient \in AppClients,
          activeAddress \in ActiveAddresses :
         hookDelistProperty(propertyId, appClient, activeAddress)
    \/ \E invocation \in pending : hookDelistSettled(invocation)

SpecHook == Init /\ [][NextHook]_vars

----------------------------------------------------------------------------
(* The instructions of each method, in the order the method issues them: the   *)
(* checks with the errors they stop the call with, the inner transactions and  *)
(* the box writes.                                                             *)

Instruction(kind, errors) == [kind |-> kind, errors |-> errors]

createPropertyListingSteps ==
    << Instruction("check", {"Shares must be greater than 0"}),
       Instruction("check", {"Price per share must be greater than 0"}),
       Instruction("check", {"MBR payment amount is insufficient"}),
       Instruction("check", {"MBR payment must be to the app"}),
       Instruction("check", {"MBR payment must be from the caller"}),
       Instruction("itxn", {}),
       Instruction("write", {}) >>

\* a slip: the group submitted before the request is compared with the supply
purchaseFromListerSteps_SubmitEarly ==
    << Instruction("check", {"Must purchase at least one share"}),
       Instruction("check", {"Property not listed"}),
       Instruction("check", {"* overflowed", "assert target is match for conditions"}),
       Instruction("itxn", {"ledger: asset does not exist",
                            "ledger: receiver has not opted in",
                            "ledger: underflow on asset"}),
       Instruction("check", {"Not enough shares"}),
       Instruction("write", {"- would result negative"}) >>

purchaseFromListerSteps ==
    << Instruction("check", {"Must purchase at least one share"}),
       Instruction("check", {"Property not listed"}),
       Instruction("check", {"* overflowed", "assert target is match for conditions"}),
       Instruction("check", {"Not enough shares"}),
       Instruction("itxn", {"ledger: asset does not exist",
                            "ledger: receiver has not opted in",
                            "ledger: underflow on asset"}),
       Instruction("write", {"- would result negative"}) >>

delistPropertySteps ==
    << Instruction("check", {"Property not listed"}),
       Instruction("check", {"Only the owner can delist"}),
       Instruction("check", {"Cannot delist property with sold shares"}),
       Instruction("write", {}) >>

getPropertyInfoSteps ==
    << Instruction("check", {"Property not listed"}) >>

Steps(op) ==
    CASE op = "createPropertyListing" -> createPropertyListingSteps
      [] op = "purchaseFromLister" -> purchaseFromListerSteps
      [] op = "delistProperty" -> delistPropertySteps
      [] op = "getPropertyInfo" -> getPropertyInfoSteps
      [] OTHER -> << >>

\* the errors of the checks of a method
CheckErrors(op) ==
    UNION {Steps(op)[i].errors : i \in {j \in DOMAIN Steps(op) : Steps(op)[j].kind = "check"}}

\* the instructions a call went through: all of them when it committed, those up
\* to the one that stopped it when it failed, none when the group failed around it
Executed(call) ==
    LET steps == Steps(call.op)
        stopped == {i \in DOMAIN steps : call.error \in steps[i].errors}
    IN  IF call.result = "ok" THEN steps
        ELSE IF stopped = {} THEN << >>
        ELSE SubSeq(steps, 1, CHOOSE i \in stopped : \A j \in stopped : i <= j)

----------------------------------------------------------------------------
(* Steps and states the properties speak of *)

\* the step is a purchaseFromLister call that committed
PurchaseCommitted == last'.op = "purchaseFromLister" /\ last'.result = "ok"

\* units of an existing asset changed hands in the step
TokensMoved == \E a \in DOMAIN assetBalance : assetBalance'[a] # assetBalance[a]

\* the app forwarded a payment in the step
PaymentForwarded == forwarded' # forwarded

\* a record that exists before and after the step was rewritten in it
RecordUpdated ==
    \E p \in DOMAIN listedProperties \cap DOMAIN listedProperties' :
        listedProperties'[p] # listedProperties[p]

\* what the sales of the records 1..k owned by account have brought in so far
RECURSIVE proceeds(_, _)
proceeds(account, k) ==
    IF k = 0 THEN 0
    ELSE proceeds(account, k - 1)
           + (IF k \in DOMAIN listedProperties /\ listedProperties[k].ownerAddress = account
              THEN listedProperties[k].pricePerShare
                     * (listedProperties[k].totalShares - listedProperties[k].availableShares)
              ELSE 0)

\* units of an asset held by the accounts of a set together
RECURSIVE held(_, _)
held(asset, accounts) ==
    IF accounts = {} THEN 0
    ELSE LET account == CHOOSE a \in accounts : TRUE
         IN  assetBalance[asset][account] + held(asset, accounts \ {account})

----------------------------------------------------------------------------
(* Properties *)

\* C1: for every record, the shares sold by successful purchaseFromLister calls
\* never add up to more than the record's totalShares, and every successful
\* purchaseFromLister(propertyId, shares, payment) has shares > 0 and lowers that
\* record's availableShares by exactly shares.
C1_PurchasesStayWithinSupply ==
    /\ [](\A p \in DOMAIN listedProperties :
            purchased[p] <= listedProperties[p].totalShares)
    /\ [][PurchaseCommitted =>
            /\ last'.shares > 0
            /\ last'.propertyId \in DOMAIN listedProperties
            /\ last'.propertyId \in DOMAIN listedProperties'
            /\ listedProperties'[last'.propertyId].availableShares
                 = listedProperties[last'.propertyId].availableShares - last'.shares
            /\ listedProperties'[last'.propertyId].availableShares
                 < listedProperties[last'.propertyId].availableShares]_vars

\* a listing sold out by two purchases of one share each
C1_Witness ==
    /\ last.op = "purchaseFromLister" /\ last.result = "ok" /\ last.shares = 1
    /\ last.propertyId \in DOMAIN listedProperties
    /\ listedProperties[last.propertyId].totalShares = 2
    /\ listedProperties[last.propertyId].availableShares = 0
    /\ purchased[last.propertyId] = 2

\* C2: every record has 0 <= availableShares <= totalShares, and a purchase that
\* passes the checks of purchaseFromLister never takes more shares than are
\* available: the subtraction availableShares - shares does not go below zero.
C2_AvailableSharesInRange ==
    /\ \A p \in DOMAIN listedProperties :
          /\ 0 <= listedProperties[p].availableShares
          /\ listedProperties[p].availableShares <= listedProperties[p].totalShares
    /\ \A caller \in Users, p \in PropertyIds, shares \in PurchaseShares :
          \A payment \in PurchasePayments(caller) :
             purchaseError(caller, p, shares, payment) = NoError
                => remainingShares(listedProperties[p], shares) >= 0
    /\ last.error # "- would result negative"

\* a record with some shares sold and some left
C2_Witness ==
    \E p \in DOMAIN listedProperties :
        /\ 0 < listedProperties[p].availableShares
        /\ listedProperties[p].availableShares < listedProperties[p].totalShares

\* C3: a purchaseFromLister call commits its three effects together (shares units
\* of the property's token from the app to the caller, the payment's amount
\* forwarded to the record's ownerAddress, availableShares lowered by shares) or
\* none of them; no step moves tokens, forwards a payment or rewrites a record
\* without the other two.
C3_PurchaseEffectsTogether ==
    [][/\ TokensMoved <=> PaymentForwarded
       /\ PaymentForwarded <=> RecordUpdated
       /\ PurchaseCommitted =>
            LET p == last'.propertyId
                shares == last'.shares
                buyer == last'.caller
                owner == listedProperties[p].ownerAddress
            IN  /\ assetBalance'[p][App] = assetBalance[p][App] - shares
                /\ assetBalance'[p][buyer] = assetBalance[p][buyer] + shares
                /\ forwarded' = [forwarded EXCEPT ![owner] = @ + last'.payment.amount]
                /\ listedProperties'[p].availableShares
                     = listedProperties[p].availableShares - shares
       /\ (last'.op = "purchaseFromLister" /\ last'.result = "fail") =>
            ~(TokensMoved \/ PaymentForwarded \/ RecordUpdated)]_vars

\* a committed purchase by someone other than the owner: the buyer holds the
\* shares, the owner has been forwarded the payment, the record shows the sale
C3_Witness ==
    /\ last.op = "purchaseFromLister" /\ last.result = "ok"
    /\ last.propertyId \in DOMAIN listedProperties
    /\ last.caller # listedProperties[last.propertyId].ownerAddress
    /\ assetBalance[last.propertyId][last.caller] = last.shares
    /\ forwarded[listedProperties[last.propertyId].ownerAddress] = last.payment.amount
    /\ listedProperties[last.propertyId].availableShares
         = listedProperties[last.propertyId].totalShares - last.shares

\* C4: purchaseFromLister commits only with payment.amount equal to shares times
\* the pricePerShare of the record it names; with any other amount, lower or
\* higher, the call fails, and a failed purchase leaves every record, so its
\* availableShares, as it was.
C4_ExactAmountOrFailure ==
    /\ [](\A caller \in Users, p \in DOMAIN listedProperties, shares \in PurchaseShares :
            \A payment \in PurchasePayments(caller), optedIn \in BOOLEAN :
               payment.amount # shares * listedProperties[p].pricePerShare
                  => purchaseResult(caller, p, shares, payment, optedIn) # NoError)
    /\ [][PurchaseCommitted =>
            last'.payment.amount
              = last'.shares * listedProperties[last'.propertyId].pricePerShare]_vars
    /\ [][(last'.op = "purchaseFromLister" /\ last'.result = "fail")
            => listedProperties' = listedProperties]_vars

\* a purchase just refused for its payment, in a state where one microAlgo less
\* and one more than the price of the shares are both refused and the price taken
C4_Witness ==
    /\ last.op = "purchaseFromLister" /\ last.result = "fail"
    /\ last.error = "assert target is match for conditions"
    /\ \E caller \in Users, p \in DOMAIN listedProperties, shares \in 1..MaxShares :
         LET price == shares * listedProperties[p].pricePerShare IN
         /\ shares <= listedProperties[p].availableShares
         /\ purchaseResult(caller, p, shares, Plain(caller, price - 1), TRUE) # NoError
         /\ purchaseResult(caller, p, shares, Plain(caller, price + 1), TRUE) # NoError
         /\ purchaseResult(caller, p, shares, Plain(caller, price), TRUE) = NoError

\* C5: delistProperty(propertyId) commits exactly when the record exists, the
\* caller is its ownerAddress and availableShares = totalShares; it then deletes
\* that record and nothing else, and in every other case it fails and leaves the
\* records and the token balances as they were.
C5_DelistIffOwnerAndUnsold ==
    [][last'.op = "delistProperty" =>
         LET p == last'.propertyId
             allowed == /\ p \in DOMAIN listedProperties
                        /\ last'.caller = listedProperties[p].ownerAddress
                        /\ listedProperties[p].availableShares
                             = listedProperties[p].totalShares
         IN  /\ last'.result = "ok" <=> allowed
             /\ last'.result = "ok" =>
                   /\ DOMAIN listedProperties' = DOMAIN listedProperties \ {p}
                   /\ \A q \in DOMAIN listedProperties' :
                         listedProperties'[q] = listedProperties[q]
             /\ last'.result = "fail" =>
                   /\ listedProperties' = listedProperties
                   /\ assetBalance' = assetBalance
             /\ assets' = assets]_vars

\* the owner has delisted an untouched listing while another listing stays
C5_Witness ==
    /\ last.op = "delistProperty" /\ last.result = "ok"
    /\ last.propertyId \notin DOMAIN listedProperties
    /\ last.propertyId \in DOMAIN assets
    /\ DOMAIN listedProperties # {}

\* C6: a record exists for propertyId exactly when a successful
\* createPropertyListing returned propertyId and no successful
\* delistProperty(propertyId) followed; once delisted, an id has no record in any
\* later state and getPropertyInfo on it fails.
C6_RecordIffListedAndNotDelisted ==
    /\ DOMAIN listedProperties = returned \ delisted
    /\ delisted \subseteq returned
    /\ \A p \in delisted : infoError(p) = "Property not listed"
    /\ (last.op = "getPropertyInfo" /\ last.propertyId \in delisted) => last.result = "fail"

\* getPropertyInfo has just failed on a delisted id, after a later listing
C6_Witness ==
    /\ last.op = "getPropertyInfo" /\ last.result = "fail"
    /\ last.propertyId \in delisted
    /\ \E q \in returned : q > last.propertyId

\* C7: a successful createPropertyListing(mbrPayment, propertyAddress, shares,
\* pricePerShare) mints an asset of total supply shares, held by the app, and
\* leaves under the returned id a record with availableShares = totalShares =
\* shares > 0, the given pricePerShare and address, propertyAssetId the returned
\* id and ownerAddress the caller.
C7_ListingCreatesFullRecord ==
    (last.op = "createPropertyListing" /\ last.result = "ok") =>
        /\ last.shares > 0
        /\ last.ret \in DOMAIN assets
        /\ assets[last.ret].total = last.shares
        /\ assetBalance[last.ret] = [a \in Accounts |-> IF a = App THEN last.shares ELSE 0]
        /\ last.ret \in DOMAIN listedProperties
        /\ listedProperties[last.ret] =
              [address |-> last.propertyAddress,
               totalShares |-> last.shares,
               availableShares |-> last.shares,
               pricePerShare |-> last.pricePerShare,
               propertyAssetId |-> last.ret,
               ownerAddress |-> last.caller]

\* the second listing has just been created, by the user who did not create the first
C7_Witness ==
    /\ last.op = "createPropertyListing" /\ last.result = "ok"
    /\ last.ret = 2
    /\ last.shares = MaxShares
    /\ 1 \in DOMAIN listedProperties
    /\ listedProperties[1].ownerAddress # last.caller

\* C8: createPropertyListing with shares = 0 or pricePerShare = 0 fails whatever
\* the other arguments; a failed createPropertyListing creates no record and mints
\* no asset; so every record has totalShares > 0 and pricePerShare > 0.
C8_ZeroSharesOrPriceRejected ==
    /\ [](\A caller \in Users, propertyAddress \in Addresses,
             shares \in ListingShares, pricePerShare \in Prices :
            \A mbrPayment \in ListingPayments(caller, propertyAddress) :
               (shares = 0 \/ pricePerShare = 0)
                  => listingResult(caller, mbrPayment, propertyAddress, shares,
                                   pricePerShare) # NoError)
    /\ [](\A p \in DOMAIN listedProperties :
            /\ listedProperties[p].totalShares > 0
            /\ listedProperties[p].pricePerShare > 0)
    /\ []((last.op = "createPropertyListing" /\ last.result = "ok")
            => (last.shares > 0 /\ last.pricePerShare > 0))
    /\ [][(last'.op = "createPropertyListing" /\ last'.result = "fail")
            => /\ listedProperties' = listedProperties
               /\ assets' = assets
               /\ assetCounter' = assetCounter
               /\ assetBalance' = assetBalance]_vars

\* a listing at price zero has just been refused, with a listing already there
C8_Witness ==
    /\ last.op = "createPropertyListing" /\ last.result = "fail"
    /\ last.error = "Price per share must be greater than 0"
    /\ DOMAIN listedProperties # {}
    /\ assetCounter < MaxAssets

\* C9: every record's propertyAssetId is the key it is stored under, no two
\* records share a propertyAssetId, and a successful createPropertyListing
\* returns an id no earlier call returned, also when the arguments are the same.
C9_AssetIdIsUniqueKey ==
    /\ [](\A k \in DOMAIN listedProperties : listedProperties[k].propertyAssetId = k)
    /\ [](\A j, k \in DOMAIN listedProperties :
            j # k => listedProperties[j].propertyAssetId
                       # listedProperties[k].propertyAssetId)
    /\ [][(last'.op = "createPropertyListing" /\ last'.result = "ok")
            => /\ last'.ret \notin returned
               /\ last'.ret \notin DOMAIN listedProperties
               /\ DOMAIN listedProperties' = DOMAIN listedProperties \cup {last'.ret}]_vars

\* two records made by calls with the same arguments, under different ids
C9_Witness ==
    \E j, k \in DOMAIN listedProperties :
        /\ j # k
        /\ listedProperties[j].address = listedProperties[k].address
        /\ listedProperties[j].totalShares = listedProperties[k].totalShares
        /\ listedProperties[j].pricePerShare = listedProperties[k].pricePerShare
        /\ listedProperties[j].ownerAddress = listedProperties[k].ownerAddress
        /\ last.op = "createPropertyListing" /\ last.result = "ok"

\* C10: a call of createPropertyListing, purchaseFromLister, delistProperty or
\* getPropertyInfo that violates one of its preconditions fails, and a failed
\* call leaves the whole state as it was: the records, the minted assets, the
\* token balances and the currency balances.
C10_FailedCallChangesNothing ==
    /\ [](\A caller \in Users, propertyAddress \in Addresses,
             shares \in ListingShares, pricePerShare \in Prices :
            \A mbrPayment \in ListingPayments(caller, propertyAddress) :
               ~(/\ shares > 0
                 /\ pricePerShare > 0
                 /\ mbrPayment.amount >= boxMbrCost(propertyAddress)
                 /\ mbrPayment.receiver = App
                 /\ mbrPayment.sender = caller)
                  => listingResult(caller, mbrPayment, propertyAddress, shares,
                                   pricePerShare) # NoError)
    /\ [](\A caller \in Users, p \in PropertyIds, shares \in PurchaseShares :
            \A payment \in PurchasePayments(caller), optedIn \in BOOLEAN :
               ~(/\ shares > 0
                 /\ p \in DOMAIN listedProperties
                 /\ payment.amount = shares * listedProperties[p].pricePerShare
                 /\ payment.receiver = App
                 /\ payment.sender = caller
                 /\ payment.closeRemainderTo = ZeroAddress
                 /\ payment.rekeyTo = ZeroAddress
                 /\ shares <= listedProperties[p].availableShares)
                  => purchaseResult(caller, p, shares, payment, optedIn) # NoError)
    /\ [](\A caller \in Users, p \in PropertyIds :
            /\ ~(/\ p \in DOMAIN listedProperties
                  /\ caller = listedProperties[p].ownerAddress
                  /\ listedProperties[p].availableShares
                       = listedProperties[p].totalShares)
                  => delistError(caller, p) # NoError
            /\ p \notin DOMAIN listedProperties => infoError(p) # NoError)
    /\ []((last.result = "ok" /\ last.op = "purchaseFromLister") => last.shares > 0)
    /\ [][last'.result = "fail"
            => /\ listedProperties' = listedProperties
               /\ assets' = assets
               /\ assetCounter' = assetCounter
               /\ assetBalance' = assetBalance
               /\ algoBalance' = algoBalance]_vars

\* a purchase of zero shares has just been refused, with shares sold before it
C10_Witness ==
    /\ last.op = "purchaseFromLister" /\ last.result = "fail"
    /\ last.error = "Must purchase at least one share"
    /\ \E p \in DOMAIN listedProperties : purchased[p] > 0

\* C11: a purchaseFromLister call asking for more shares than the availableShares
\* of the record as it stands when the call runs is refused by the method's own
\* checks, and a refused purchase moves no token and no payment and fills nothing;
\* so once a purchase of a shares has committed against availableShares = n, every
\* purchase of b shares by another caller with a + b > n is refused: of two such
\* purchases, in either order, at most one commits.
C11_OversizedPurchaseRefused ==
    /\ [](\A caller \in Users, p \in DOMAIN listedProperties, shares \in PurchaseShares :
            \A payment \in PurchasePayments(caller) :
               shares > listedProperties[p].availableShares
                  => purchaseError(caller, p, shares, payment) # NoError)
    /\ [](last.error # "ledger: underflow on asset")
    /\ [][\A p \in PropertyIds, first \in Users, a \in PurchaseShares :
            (PurchaseCommitted /\ last'.propertyId = p /\ last'.caller = first
               /\ last'.shares = a)
              => /\ a <= listedProperties[p].availableShares
                 /\ \A other \in Users \ {first}, b \in PurchaseShares :
                       \A payment \in PurchasePayments(other), optedIn \in BOOLEAN :
                          a + b > listedProperties[p].availableShares
                             => purchaseResult(other, p, b, payment, optedIn)' # NoError]_vars
    /\ [][(last'.op = "purchaseFromLister" /\ last'.result = "fail")
            => /\ assetBalance' = assetBalance
               /\ algoBalance' = algoBalance
               /\ forwarded' = forwarded
               /\ purchased' = purchased
               /\ listedProperties' = listedProperties]_vars

\* a purchase has just been refused for lack of shares where a record of two
\* shares has one left, the other sold to a user
C11_Witness ==
    /\ last.op = "purchaseFromLister" /\ last.result = "fail"
    /\ last.error = "Not enough shares"
    /\ \E p \in DOMAIN listedProperties, buyer \in Users :
          /\ listedProperties[p].totalShares = 2
          /\ listedProperties[p].availableShares = 1
          /\ assetBalance[p][buyer] = 1

\* C12: purchaseFromLister fails whenever the payment's receiver is not the app,
\* its sender is not the caller, its closeRemainderTo is not the zero address or
\* its rekeyTo is not the zero address, also when the amount is exactly shares *
\* pricePerShare; the failed call changes nothing, and every committed purchase
\* came with a payment plain in all four fields.
C12_MalformedPaymentRefused ==
    /\ [](\A caller \in Users, p \in PropertyIds, shares \in PurchaseShares :
            \A payment \in PurchasePayments(caller), optedIn \in BOOLEAN :
               (\/ payment.receiver # App
                \/ payment.sender # caller
                \/ payment.closeRemainderTo # ZeroAddress
                \/ payment.rekeyTo # ZeroAddress)
                  => purchaseResult(caller, p, shares, payment, optedIn) # NoError)
    /\ []((last.op = "purchaseFromLister" /\ last.result = "ok")
            => last.payment = [amount |-> last.payment.amount, receiver |-> App,
                               sender |-> last.caller, closeRemainderTo |-> ZeroAddress,
                               rekeyTo |-> ZeroAddress])
    /\ [][(last'.op = "purchaseFromLister"
             /\ last'.error = "assert target is match for conditions")
            => UNCHANGED <<listedProperties, ledger, history>>]_vars

\* a purchase has just been refused for its payment in a state where, for some
\* available share, each of the four one-field-off payments of the exact amount
\* is refused and the plain payment of that amount is taken
C12_Witness ==
    /\ last.op = "purchaseFromLister" /\ last.result = "fail"
    /\ last.error = "assert target is match for conditions"
    /\ \E caller \in Users, p \in DOMAIN listedProperties, shares \in 1..MaxShares :
         LET amount == shares * listedProperties[p].pricePerShare
             offered == {payment \in PurchasePayments(caller) : payment.amount = amount}
         IN  /\ shares <= listedProperties[p].availableShares
             /\ \E payment \in offered : payment.receiver # App
             /\ \E payment \in offered : payment.sender # caller
             /\ \E payment \in offered : payment.closeRemainderTo # ZeroAddress
             /\ \E payment \in offered : payment.rekeyTo # ZeroAddress
             /\ \A payment \in offered \ {Plain(caller, amount)} :
                   purchaseResult(caller, p, shares, payment, TRUE) # NoError
             /\ purchaseResult(caller, p, shares, Plain(caller, amount), TRUE) = NoError

\* C13: every committed purchaseFromLister forwards exactly the amount of its
\* payment, shares * pricePerShare, to the ownerAddress of the record and to no one
\* else, so the app's currency balance after the call is what it was before the
\* payment; over any sequence of purchases each owner has been forwarded
\* pricePerShare * (totalShares - availableShares) for each record.
C13_PaymentForwardedToOwner ==
    /\ [](\A account \in Accounts : forwarded[account] = proceeds(account, MaxAssets))
    /\ [][PurchaseCommitted =>
            LET property == listedProperties[last'.propertyId]
                owner == property.ownerAddress
                buyer == last'.caller
                amount == last'.shares * property.pricePerShare
            IN  /\ last'.payment.amount = amount
                /\ forwarded' = [forwarded EXCEPT ![owner] = @ + amount]
                /\ algoBalance'[App] = algoBalance[App]
                /\ \A account \in Users :
                      algoBalance'[account] =
                          algoBalance[account]
                            - (IF account = buyer THEN amount ELSE 0)
                            + (IF account = owner THEN amount ELSE 0)]_vars

\* a listing sold out to a user who is not its owner, in two purchases: the owner
\* has been forwarded the price of both shares, the buyer nothing
C13_Witness ==
    /\ last.op = "purchaseFromLister" /\ last.result = "ok"
    /\ last.propertyId \in DOMAIN listedProperties
    /\ LET property == listedProperties[last.propertyId] IN
         /\ property.ownerAddress # last.caller
         /\ property.totalShares = 2 /\ property.availableShares = 0
         /\ last.shares = 1
         /\ forwarded[property.ownerAddress] = 2 * property.pricePerShare
         /\ forwarded[last.caller] = 0
         /\ algoBalance[property.ownerAddress] > InitialFunds - 2 * boxMbrCost(property.address)

\* C14: while a record exists its address, totalShares, pricePerShare,
\* propertyAssetId and ownerAddress never change and its availableShares never
\* grows; a record changes only in a committed purchaseFromLister that names it,
\* which leaves every other record as it was, and createPropertyListing and
\* delistProperty leave every record but the one they create or delete unchanged.
C14_RecordFieldsFixed ==
    [][/\ \A p \in DOMAIN listedProperties \cap DOMAIN listedProperties' :
            /\ listedProperties'[p].address = listedProperties[p].address
            /\ listedProperties'[p].totalShares = listedProperties[p].totalShares
            /\ listedProperties'[p].pricePerShare = listedProperties[p].pricePerShare
            /\ listedProperties'[p].propertyAssetId = listedProperties[p].propertyAssetId
            /\ listedProperties'[p].ownerAddress = listedProperties[p].ownerAddress
            /\ listedProperties'[p].availableShares <= listedProperties[p].availableShares
            /\ listedProperties'[p] # listedProperties[p]
                  => (PurchaseCommitted /\ last'.propertyId = p)
       /\ PurchaseCommitted =>
            /\ DOMAIN listedProperties' = DOMAIN listedProperties
            /\ listedProperties'[last'.propertyId] =
                  [listedProperties[last'.propertyId] EXCEPT !.availableShares = @ - last'.shares]
       /\ (last'.op = "createPropertyListing" /\ last'.result = "ok") =>
            /\ DOMAIN listedProperties' = DOMAIN listedProperties \cup {last'.ret}
            /\ \A p \in DOMAIN listedProperties : listedProperties'[p] = listedProperties[p]
       /\ (last'.op = "delistProperty" /\ last'.result = "ok") =>
            /\ DOMAIN listedProperties' = DOMAIN listedProperties \ {last'.propertyId}
            /\ \A p \in DOMAIN listedProperties' : listedProperties'[p] = listedProperties[p]
       ]_vars

\* a purchase has just lowered one record's availableShares while another
\* record, listed with other terms, stands as it was listed
C14_Witness ==
    /\ last.op = "purchaseFromLister" /\ last.result = "ok"
    /\ \E p, q \in DOMAIN listedProperties :
          /\ p = last.propertyId /\ q # p
          /\ listedProperties[p].availableShares < listedProperties[p].totalShares
          /\ listedProperties[q].availableShares = listedProperties[q].totalShares
          /\ listedProperties[q].pricePerShare # listedProperties[p].pricePerShare

\* C15: createPropertyListing with shares > 0 and pricePerShare > 0 commits only
\* when mbrPayment is sent by the caller to the app with amount >= 2500 + 400 *
\* (18 + 68 + the address's byte length); a smaller amount fails and leaves no
\* record and no asset, a larger one is accepted and kept whole by the app, the
\* record holding no trace of the surplus; the amount required grows by 400 with
\* each further byte of the address.
C15_StorageCostCovered ==
    /\ [](\A caller \in Users, propertyAddress \in ListingAddresses,
             shares \in ListingShares, pricePerShare \in Prices :
            \A mbrPayment \in MbrPayments(caller, propertyAddress) :
               LET required == 2500 + 400 * (18 + 68 + Len(propertyAddress))
                   result == listingResult(caller, mbrPayment, propertyAddress, shares,
                                           pricePerShare)
               IN  /\ result = NoError
                        => /\ mbrPayment.sender = caller
                           /\ mbrPayment.receiver = App
                           /\ mbrPayment.amount >= required
                   /\ mbrPayment.amount < required => result # NoError
                   /\ (/\ shares > 0 /\ pricePerShare > 0
                       /\ mbrPayment.sender = caller /\ mbrPayment.receiver = App
                       /\ mbrPayment.amount >= required
                       /\ algoBalance[caller] >= mbrPayment.amount)
                        => result = NoError)
    /\ [](\A n \in 0..(MaxAddressLen - 1) :
            /\ boxMbrCost(Bytes(n)) = 2500 + 400 * (18 + 68 + n)
            /\ boxMbrCost(Bytes(n + 1)) = boxMbrCost(Bytes(n)) + 400)
    /\ []((last.op = "createPropertyListing" /\ last.result = "ok")
            => /\ last.payment.amount >= 2500 + 400 * (18 + 68 + Len(last.propertyAddress))
               /\ DOMAIN listedProperties[last.ret] =
                     {"address", "totalShares", "availableShares", "pricePerShare",
                      "propertyAssetId", "ownerAddress"})
    /\ [][(last'.op = "createPropertyListing" /\ last'.result = "ok")
            => /\ algoBalance'[App] = algoBalance[App] + last'.payment.amount
               /\ algoBalance'[last'.caller] = algoBalance[last'.caller] - last'.payment.amount
               /\ forwarded' = forwarded]_vars
    /\ [][(last'.op = "createPropertyListing" /\ last'.result = "fail")
            => /\ listedProperties' = listedProperties
               /\ assets' = assets
               /\ assetBalance' = assetBalance
               /\ algoBalance' = algoBalance]_vars

\* a listing of the longest address has just been accepted with one microAlgo
\* more than its cost, which is more than the cost of the shorter address listed
\* before it, and the app holds both payments whole
C15_Witness ==
    /\ last.op = "createPropertyListing" /\ last.result = "ok"
    /\ Len(last.propertyAddress) = MaxAddressLen
    /\ last.payment.amount = 2500 + 400 * (18 + 68 + MaxAddressLen) + 1
    /\ \E q \in DOMAIN listedProperties :
          /\ q # last.ret
          /\ Len(listedProperties[q].address) = AddressLen
          /\ algoBalance[App] = last.payment.amount + 2500 + 400 * (18 + 68 + AddressLen)

\* C17: the name of the minted asset is the first min(32, length) bytes of
\* propertyAddress: the whole address when it has at most 32 bytes, its first 32
\* bytes otherwise; the same address gets the same name on every call.
C17_AssetNameIsAddressPrefix ==
    /\ \A propertyAddress \in ListingAddresses, shares \in ListingShares :
          LET assetName == createPropertyAsset(propertyAddress, shares).assetName IN
          /\ Len(assetName) = IF Len(propertyAddress) <= 32 THEN Len(propertyAddress) ELSE 32
          /\ \A i \in 1..Len(assetName) : assetName[i] = propertyAddress[i]
          /\ Len(propertyAddress) <= 32 => assetName = propertyAddress
    /\ \A p \in DOMAIN listedProperties :
          LET assetName == assets[p].assetName
              address == listedProperties[p].address
          IN  /\ Len(assetName) = IF Len(address) <= 32 THEN Len(address) ELSE 32
              /\ \A i \in 1..Len(assetName) : assetName[i] = address[i]
              /\ Len(address) <= 32 => assetName = address
    /\ \A p, q \in DOMAIN listedProperties :
          listedProperties[p].address = listedProperties[q].address
             => assets[p].assetName = assets[q].assetName

\* two assets minted for two addresses longer than 32 bytes that differ in their
\* last byte only carry the same 32-byte name
C17_Witness ==
    \E p, q \in DOMAIN listedProperties :
        /\ Len(listedProperties[p].address) = MaxAddressLen - 1
        /\ Len(listedProperties[q].address) = MaxAddressLen
        /\ Len(assets[p].assetName) = 32
        /\ assets[p].assetName = assets[q].assetName
        /\ assets[p].assetName # listedProperties[p].address

\* C16: getPropertyInfo(propertyId) changes no state whether it fails or returns;
\* it fails exactly when no record exists for propertyId, and otherwise returns
\* the record as it stands, every committed purchase reflected in it.
C16_InfoReadsCurrentRecord ==
    /\ [][last'.op = "getPropertyInfo" =>
            /\ UNCHANGED <<listedProperties, ledger, history>>
            /\ last'.result = "fail" <=> last'.propertyId \notin DOMAIN listedProperties
            /\ last'.result = "ok" => last'.ret = listedProperties[last'.propertyId]]_vars
    /\ []((last.op = "getPropertyInfo" /\ last.result = "ok")
            => /\ last.ret = listedProperties[last.propertyId]
               /\ last.ret.availableShares
                    = last.ret.totalShares - purchased[last.propertyId])

\* the record returned after a purchase shows the shares sold
C16_Witness ==
    /\ last.op = "getPropertyInfo" /\ last.result = "ok"
    /\ purchased[last.propertyId] > 0
    /\ last.ret.availableShares < last.ret.totalShares
    /\ last.ret.ownerAddress \in Users

\* C18: whenever an account other than the app holds tokens of a property, the
\* record of that property exists: a record with a committed purchase is never
\* deleted (every delistProperty on it fails), and the tokens of a delisted
\* property all stay with the app.
C18_HoldersKeepTheirRecord ==
    /\ \A asset \in DOMAIN assetBalance :
          (\E holder \in Users : assetBalance[asset][holder] > 0)
             => asset \in DOMAIN listedProperties
    /\ \A p \in PropertyIds :
          purchased[p] > 0
             => /\ p \in DOMAIN listedProperties
                /\ p \notin delisted
                /\ \A caller \in Users : delistError(caller, p) # NoError
    /\ \A p \in delisted :
          /\ purchased[p] = 0
          /\ assetBalance[p] = [a \in Accounts |-> IF a = App THEN assets[p].total ELSE 0]
          /\ \A caller \in Users, shares \in PurchaseShares :
                \A payment \in PurchasePayments(caller), optedIn \in BOOLEAN :
                   purchaseResult(caller, p, shares, payment, optedIn) # NoError

\* the owner has just been refused the delisting of a property of which a user
\* holds a share, after the other property was delisted
C18_Witness ==
    /\ last.op = "delistProperty" /\ last.result = "fail"
    /\ last.error = "Cannot delist property with sold shares"
    /\ last.propertyId \in DOMAIN listedProperties
    /\ last.caller = listedProperties[last.propertyId].ownerAddress
    /\ \E holder \in Users : assetBalance[last.propertyId][holder] > 0
    /\ delisted # {}

\* C19: within each call every precondition check comes before the first
\* side-effecting instruction: in purchaseFromLister the checks shares > 0, record
\* exists, payment match and shares <= availableShares come before the grouped
\* transfer and payment, which come before the record write; in
\* createPropertyListing the argument and payment checks come before the mint,
\* which comes before the record write; in delistProperty the three checks come
\* before the deletion.  So a call that violates a check is stopped by that check,
\* whatever the inner transactions would have met.
C19_ChecksBeforeEffects ==
    /\ LET done == Executed(last) IN
         /\ \A i, j \in DOMAIN done :
               (done[i].kind = "check" /\ done[j].kind # "check") => i < j
         /\ \A i, j \in DOMAIN done :
               (done[i].kind = "itxn" /\ done[j].kind = "write") => i < j
         /\ (last.result = "ok" /\ last.op # "none") =>
               /\ done[Len(done)].kind = "write" \/ last.op = "getPropertyInfo"
               /\ \A error \in CheckErrors(last.op) :
                     \E i \in DOMAIN done : done[i].kind = "check" /\ error \in done[i].errors
         /\ (last.result = "fail" /\ last.error # "ledger: overspend") =>
               /\ done # << >>
               /\ last.error \in done[Len(done)].errors
    /\ \A caller \in Users, p \in PropertyIds, shares \in PurchaseShares :
          \A payment \in PurchasePayments(caller), optedIn \in BOOLEAN :
             ~(/\ shares > 0
               /\ p \in DOMAIN listedProperties
               /\ payment.amount = shares * listedProperties[p].pricePerShare
               /\ payment.receiver = App /\ payment.sender = caller
               /\ payment.closeRemainderTo = ZeroAddress /\ payment.rekeyTo = ZeroAddress
               /\ shares <= listedProperties[p].availableShares)
                => purchaseResult(caller, p, shares, payment, optedIn)
                     \in CheckErrors("purchaseFromLister") \cup {"ledger: overspend"}
    /\ \A caller \in Users, propertyAddress \in Addresses,
          shares \in ListingShares, pricePerShare \in Prices :
          \A mbrPayment \in ListingPayments(caller, propertyAddress) :
             ~(/\ shares > 0 /\ pricePerShare > 0
               /\ mbrPayment.amount >= boxMbrCost(propertyAddress)
               /\ mbrPayment.receiver = App /\ mbrPayment.sender = caller)
                => listingResult(caller, mbrPayment, propertyAddress, shares, pricePerShare)
                     \in CheckErrors("createPropertyListing") \cup {"ledger: overspend"}
    /\ \A caller \in Users, p \in PropertyIds :
          delistError(caller, p) \in CheckErrors("delistProperty") \cup {NoError}

\* a purchase that passed every check has just been stopped at the grouped
\* submission, the buyer not having opted in, in a state where a request beyond
\* the supply from a buyer who has not opted in is stopped by the check instead
C19_Witness ==
    /\ last.op = "purchaseFromLister" /\ last.result = "fail"
    /\ last.error = "ledger: receiver has not opted in"
    /\ Len(Executed(last)) = 5
    /\ \E caller \in Users, p \in DOMAIN listedProperties :
          LET shares == listedProperties[p].availableShares + 1 IN
          /\ shares \in PurchaseShares
          /\ \E payment \in PurchasePayments(caller) :
                /\ payment = Plain(caller, shares * listedProperties[p].pricePerShare)
                /\ purchaseResult(caller, p, shares, payment, FALSE) = "Not enough shares"

\* C20: in every reachable state and for every listed property, the app holds
\* exactly availableShares units of the property's token, and the app and the
\* purchasers together hold totalShares, the minted supply; a purchaser's balance
\* changes only by the shares of a committed purchase of theirs, starting from
\* zero, so it is the sum of the shares they bought.
C20_SupplyConserved ==
    /\ [](\A p \in DOMAIN listedProperties :
            /\ assetBalance[p][App] = listedProperties[p].availableShares
            /\ held(p, Accounts) = listedProperties[p].totalShares
            /\ held(p, Accounts) = assets[p].total
            /\ held(p, Users) = purchased[p])
    /\ [][\A asset \in DOMAIN assetBalance' :
            IF asset \notin DOMAIN assetBalance
            THEN \A user \in Users : assetBalance'[asset][user] = 0
            ELSE IF PurchaseCommitted /\ last'.propertyId = asset
            THEN \A user \in Users :
                    assetBalance'[asset][user] =
                        assetBalance[asset][user]
                          + (IF user = last'.caller THEN last'.shares ELSE 0)
            ELSE assetBalance'[asset] = assetBalance[asset]]_vars

\* a listing of two shares sold out to two purchasers, one share each
C20_Witness ==
    \E p \in DOMAIN listedProperties :
        /\ listedProperties[p].totalShares = 2
        /\ listedProperties[p].availableShares = 0
        /\ assetBalance[p][App] = 0
        /\ \A user \in Users : assetBalance[p][user] = 1

\* C21: the amount a purchase must pay, shares * pricePerShare, is computed in the
\* unsigned word without wrap-around: when the true product exceeds the largest
\* value of the word the purchaseFromLister call fails and changes nothing, so no
\* purchase ever commits with a payment smaller than the true product.
C21_NoWrapAround ==
    /\ [](\A caller \in Users, p \in DOMAIN listedProperties, shares \in 1..MaxShares :
            \A payment \in WordPayments(caller), optedIn \in BOOLEAN :
               shares * listedProperties[p].pricePerShare > MaxUint
                  => purchaseResult(caller, p, shares, payment, optedIn) # NoError)
    /\ []((last.op = "purchaseFromLister" /\ last.result = "ok")
            => /\ last.payment.amount
                    >= last.shares * listedProperties[last.propertyId].pricePerShare
               /\ last.shares * listedProperties[last.propertyId].pricePerShare <= MaxUint)
    /\ [](\A account \in Accounts : forwarded[account] = proceeds(account, MaxAssets))
    /\ [][(last'.op = "purchaseFromLister" /\ last'.result = "fail")
            => UNCHANGED <<listedProperties, ledger, history>>]_vars

\* a purchase has just been stopped by the overflow of the product, in a state
\* where a buyer who could pay it offers, for two shares of a record, what the
\* word would hold of their price, less than the price of one
C21_Witness ==
    /\ last.op = "purchaseFromLister" /\ last.result = "fail"
    /\ last.error = "* overflowed"
    /\ \E caller \in Users, p \in DOMAIN listedProperties :
          LET pricePerShare == listedProperties[p].pricePerShare
              payment == Plain(caller, mul(2, pricePerShare))
          IN  /\ 2 * pricePerShare > MaxUint
              /\ listedProperties[p].availableShares = 2
              /\ payment \in WordPayments(caller)
              /\ payment.amount < pricePerShare
              /\ CanPay(algoBalance, payment)
              /\ purchaseResult(caller, p, 2, payment, TRUE) = "* overflowed"

\* C22: in the useDelistProperty hook, under every interleaving of delistProperty
\* invocations, also of two invocations for different properties that overlap:
\* while at least one invocation awaits its contract call, loading is true and
\* delistingPropertyId is the id of an invocation in flight; once every invocation
\* has finished, loading is false and delistingPropertyId is null; and an
\* invocation made with appClient null or activeAddress missing sends no contract
\* call and sets nothing but error.
C22_LoadingTracksInFlight ==
    /\ pending # {} =>
          /\ hook.loading = TRUE
          /\ hook.delistingPropertyId \in {invocation.propertyId : invocation \in pending}
    /\ pending = {} =>
          /\ hook.loading = FALSE
          /\ hook.delistingPropertyId = NoProperty
    /\ \A propertyId \in PropertyIds, appClient \in AppClients,
          activeAddress \in ActiveAddresses :
          (appClient = Null \/ activeAddress = Null) =>
             LET invoked == hookInvoked(hook, propertyId, appClient, activeAddress) IN
             /\ invoked.send = FALSE
             /\ invoked.state.error # Null
             /\ invoked.state = [hook EXCEPT !.error = invoked.state.error]

====
